---- MODULE Spec2Model ----
(***************************************************************************)
(* Model of src/app.py: the Flask application that stages an uploaded      *)
(* image in the source bucket, calls the API Gateway endpoint that starts  *)
(* the resize, and answers completion checks by HEAD requests on the two   *)
(* buckets.  Requests are served concurrently (Flask's threaded server),   *)
(* so every handler is split at its blocking calls.                        *)
(***************************************************************************)
EXTENDS Integers, Sequences, FiniteSets, TLC

(***************************************************************************)
(* Bounds of the model.                                                    *)
(***************************************************************************)
\* Number of /upload and /check-resized requests served in one behaviour.
MaxReq == 3
\* Number of seconds the wall clock advances in one behaviour.
MaxClock == 6

\* time.sleep(5) in upload_image.
SLEEP_SECONDS == 5
\* The only status upload_image accepts from the trigger endpoint.
HTTP_OK == 200

\* Uploads arrive early enough for their handler to run to its end within
\* the modelled time.
MaxArrival == MaxClock - SLEEP_SECONDS

(***************************************************************************)
(* Text.  A Python str is a sequence of one-character strings.             *)
(***************************************************************************)
Digits == <<"0", "1", "2", "3", "4", "5", "6", "7", "8", "9">>

Digit(n) == Digits[n + 1]

TwoDigits(n) == <<Digit((n \div 10) % 10), Digit(n % 10)>>

\* The wall clock when the behaviour starts, in seconds since midnight of
\* 2024-01-01: 11:59:59, so that the minute and the hour roll over.
StartClock == (12 * 3600) - 1

DatePrefix == <<"2", "0", "2", "4", "0", "1", "0", "1">>

\* datetime.now().strftime("%Y%m%d%H%M%S") for t seconds since midnight.
Strftime(t) ==
    DatePrefix \o TwoDigits(t \div 3600) \o TwoDigits((t \div 60) % 60)
               \o TwoDigits(t % 60)

\* Does text t carry text p at position i (1-based)?
StartsWithAt(t, p, i) ==
    /\ i + Len(p) - 1 <= Len(t)
    /\ \A k \in 1..Len(p) : t[i + k - 1] = p[k]

Drop(t, n) == SubSeq(t, n + 1, Len(t))

\* str.replace(old, new): every non-overlapping occurrence, left to right.
RECURSIVE Replace(_, _, _)
Replace(t, old, new) ==
    IF t = <<>> THEN <<>>
    ELSE IF StartsWithAt(t, old, 1)
         THEN new \o Replace(Drop(t, Len(old)), old, new)
         ELSE <<Head(t)>> \o Replace(Tail(t), old, new)

\* Positions of "." in text t.
DotPositions(t) == {i \in 1..Len(t) : t[i] = "."}

Max(S) == CHOOSE x \in S : \A y \in S : y <= x

\* file.filename.rsplit('.', 1)[-1]: the text after the last dot, the whole
\* filename when it has no dot.
Extension(filename) ==
    IF DotPositions(filename) = {} THEN filename
    ELSE Drop(filename, Max(DotPositions(filename)))

IsDigit(c) == \E n \in 0..9 : Digits[n + 1] = c

DigitValue(c) == CHOOSE n \in 0..9 : Digits[n + 1] = c

RECURSIVE DigitsValue(_)
DigitsValue(t) ==
    IF t = <<>> THEN 0
    ELSE (10 * DigitsValue(SubSeq(t, 1, Len(t) - 1))) + DigitValue(t[Len(t)])

AllDigits(t) == t # <<>> /\ \A k \in 1..Len(t) : IsDigit(t[k])

\* int(text): an optional sign and decimal digits, ValueError otherwise.
\* (int also accepts surrounding blanks and underscores between digits; no
\* form of UploadForms carries them.)
ParseInt(text) ==
    IF AllDigits(text) THEN [ok |-> TRUE, val |-> DigitsValue(text)]
    ELSE IF text # <<>> /\ text[1] = "-" /\ AllDigits(Tail(text))
         THEN [ok |-> TRUE, val |-> 0 - DigitsValue(Tail(text))]
    ELSE IF text # <<>> /\ text[1] = "+" /\ AllDigits(Tail(text))
         THEN [ok |-> TRUE, val |-> DigitsValue(Tail(text))]
    ELSE [ok |-> FALSE, val |-> 0]

(***************************************************************************)
(* Key naming.                                                             *)
(***************************************************************************)
ResizedPrefix == <<"r", "e", "s", "i", "z", "e", "d", "-">>

\* source_key = f"{timestamp}.{extension}"
SourceKey(timestamp, extension) == timestamp \o <<".">> \o extension

\* A target key built from the timestamp alone, the extension dropped.
ResizedKeyOfTimestamp(source_key) ==
    ResizedPrefix \o SubSeq(source_key, 1, Len(DatePrefix) + 6)

\* resized_key = f"resized-{source_key}"
ResizedKey(source_key) == ResizedPrefix \o source_key

\* source_key = resized_key.replace("resized-", "")
DeriveSourceKey(resized_key) == Replace(resized_key, ResizedPrefix, <<>>)

(***************************************************************************)
(* Configuration read from the environment (lines 18-24).                  *)
(***************************************************************************)
SOURCE_BUCKET == "source-bucket"

TARGET_BUCKET == "target-bucket"

(***************************************************************************)
(* Inputs.                                                                 *)
(***************************************************************************)
\* The multipart forms a client posts to /upload: the file's name, the
\* length of its payload, and the width and height fields as typed.
UploadForms ==
    { [filename |-> <<"a", ".", "p", "n", "g">>, payload |-> 1024,
       width |-> <<"1", "0", "0">>, height |-> <<"1", "0", "0">>],
      [filename |-> <<"b", ".", "v", "2", ".", "p", "n", "g">>, payload |-> 2048,
       width |-> <<"0">>, height |-> <<"-", "5">>],
      [filename |-> <<"c", ".">> \o ResizedPrefix \o <<"j", "p", "g">>,
       payload |-> 1024,
       width |-> <<"6", "4">>, height |-> <<"+", "4", "8">>],
      [filename |-> <<"R", "E", "A", "D", "M", "E">>, payload |-> 512,
       width |-> <<"1", "0", "0">>, height |-> <<"4", "8", "p", "x">>] }

\* Statuses the trigger endpoint answers with.
TriggerStatuses == {200, 202, 500}

\* Content lengths of the objects the transform writes.
ResizedSizes == {256}

Usernames == {"alice"}

Emails == {"alice@example.com"}

\* Passwords typed at login; the first is the one alice registers with.
Passwords == {"secret", "guess"}

RegisteredPasswords == {"secret"}

Salts == {"salt1"}

(***************************************************************************)
(* State.                                                                  *)
(***************************************************************************)
VARIABLES
    clock,      \* seconds elapsed since StartClock
    objects,    \* the object store: <<bucket, key>> -> content length
    users,      \* the User table: a sequence of rows, in id order
    session,    \* the client's session cookie: a dict
    reqs,       \* the /upload and /check-resized requests, in arrival order
    pending     \* trigger requests accepted and not yet transformed

vars == <<clock, objects, users, session, reqs, pending>>

Now == StartClock + clock

\* A dict with no keys.
EmptyDict == [k \in {} |-> 0]

LoggedIn == "user_id" \in DOMAIN session

(***************************************************************************)
(* Responses.                                                              *)
(***************************************************************************)
NoResponse == [status |-> 0, type |-> "none", body |-> EmptyDict]

\* jsonify(body), status
Jsonify(body, status) == [status |-> status, type |-> "json", body |-> body]

\* redirect(url_for(endpoint))
Redirect(endpoint) ==
    [status |-> 302, type |-> "redirect", body |-> [location |-> endpoint]]

\* An exception no handler catches: Flask answers 500 Internal Server Error.
Unhandled(exception) ==
    [status |-> 500, type |-> "html", body |-> [exception |-> exception]]

\* f"https://{bucket}.s3.amazonaws.com/{key}"
ObjectUrl(bucket, key) == <<"https://", bucket, ".s3.amazonaws.com/">> \o key

(***************************************************************************)
(* A request in service.  The fields are the handler's locals; calls and   *)
(* heads record the calls the request has made on its collaborators.       *)
(***************************************************************************)
NewRequest(route) ==
    [ route |-> route,
      pc |-> "done",
      payload |-> 0,             \* length of request.files['file']
      width |-> 0,
      height |-> 0,
      source_key |-> <<>>,
      resized_key |-> <<>>,
      wake |-> 0,                \* when time.sleep returns
      original_size |-> 0,
      resized_size |-> 0,
      authenticated |-> FALSE,   \* did the session hold user_id on arrival
      job |-> 0,                 \* check: the upload whose handle it carries
      after_complete |-> FALSE,  \* check: an earlier check of the job had
                                 \* already answered exists True on arrival
      started_complete |-> FALSE,\* check: target object present on arrival
      puts |-> 0,                \* upload_fileobj calls made
      posts |-> 0,               \* requests.post calls made
      post_reply |-> "none",     \* "none", "status", "ConnectionError"
      post_status |-> 0,
      put_failed |-> FALSE,
      heads |-> <<>>,            \* outcome of each head_object call
      response |-> NoResponse ]

(***************************************************************************)
(* Accounts and the session (the collaborators behind login_required).     *)
(***************************************************************************)
\* The PBKDF2 digest of a password under a salt: an ideal hash.
Pbkdf2(salt, password) == <<salt, password>>

\* generate_password_hash(password, method='pbkdf2:sha256') with a fresh salt
GeneratePasswordHash(password, salt) ==
    [method |-> "pbkdf2:sha256", salt |-> salt, digest |-> Pbkdf2(salt, password)]

\* check_password_hash(pwhash, password)
CheckPasswordHash(pwhash, password) ==
    pwhash.digest = Pbkdf2(pwhash.salt, password)

\* User.query.filter_by(username=username).first(): the rows found, in order
UsersNamed(username) ==
    SelectSeq(users, LAMBDA row : row.username = username)

\* POST /register.  The unique constraints on username and email make the
\* commit raise IntegrityError, which nothing catches.
Register(username, email, password, salt) ==
    /\ \A k \in 1..Len(users) :
           users[k].username # username /\ users[k].email # email
    /\ users' = Append(users,
                       [id |-> Len(users) + 1,
                        username |-> username,
                        email |-> email,
                        password |-> GeneratePasswordHash(password, salt)])
    /\ UNCHANGED <<clock, objects, session, reqs, pending>>

RegisterDuplicate(username, email) ==
    /\ \E k \in 1..Len(users) :
           users[k].username = username \/ users[k].email = email
    /\ UNCHANGED vars

\* A login that looks the user up and does not check the password.
LoginSessionAnyPassword(username, password) ==
    IF LoggedIn THEN session
    ELSE IF UsersNamed(username) # <<>>
         THEN [user_id |-> UsersNamed(username)[1].id,
               username |-> UsersNamed(username)[1].username]
         ELSE session

\* The session login() leaves for a POST with these credentials.
LoginSession(username, password) ==
    IF LoggedIn THEN session
    ELSE IF /\ UsersNamed(username) # <<>>
            /\ CheckPasswordHash(UsersNamed(username)[1].password, password)
         THEN [user_id |-> UsersNamed(username)[1].id,
               username |-> UsersNamed(username)[1].username]
         ELSE session

\* POST /login
Login(username, password) ==
    /\ session' = LoginSession(username, password)
    /\ UNCHANGED <<clock, objects, users, reqs, pending>>

\* GET /logout: session.clear()
Logout ==
    /\ session' = EmptyDict
    /\ UNCHANGED <<clock, objects, users, reqs, pending>>

(***************************************************************************)
(* The wall clock.                                                         *)
(***************************************************************************)
Tick ==
    /\ clock < MaxClock
    /\ clock' = clock + 1
    /\ UNCHANGED <<objects, users, session, reqs, pending>>

(***************************************************************************)
(* The object store (boto3's S3 client).                                   *)
(***************************************************************************)
\* The store after upload_fileobj / the transform's put of size bytes.
PutObject(objs, bucket, key, size) ==
    [k \in DOMAIN objs \union {<<bucket, key>>} |->
        IF k = <<bucket, key>> THEN size ELSE objs[k]]

\* Exceptions upload_fileobj raises.
PutErrors == {"S3UploadFailedError"}

\* What one head_object call can come back with: the object's metadata, or
\* ClientError 404 when it is absent; whatever the store holds, the call can
\* be denied (ClientError 403) or fail to reach the store (a BotoCoreError,
\* which is no ClientError).
\* Each outcome also records whether the store held the object (present).
HeadObject(bucket, key) ==
    (IF <<bucket, key>> \in DOMAIN objects
     THEN {[kind |-> "ok", code |-> 200, present |-> TRUE,
            ContentLength |-> objects[<<bucket, key>>]]}
     ELSE {[kind |-> "ClientError", code |-> 404, present |-> FALSE,
            ContentLength |-> 0]})
    \union {[kind |-> "ClientError", code |-> 403,
             present |-> <<bucket, key>> \in DOMAIN objects, ContentLength |-> 0],
            [kind |-> "EndpointConnectionError", code |-> 0,
             present |-> <<bucket, key>> \in DOMAIN objects, ContentLength |-> 0]}

(***************************************************************************)
(* login_required (lines 44-51).                                           *)
(***************************************************************************)
\* A route left without the decorator.
LoginNotRequired(route, started) == started

\* The request as it stands once the decorator has run: the handler's own
\* start when the session holds user_id, a redirect to login otherwise.
LoginRequired(route, started) ==
    IF LoggedIn THEN started
    ELSE [NewRequest(route) EXCEPT !.response = Redirect("login")]

(***************************************************************************)
(* POST /upload: upload_image (lines 117-157).                             *)
(***************************************************************************)
\* A handler that posts to the trigger endpoint before it stages the file.
UploadBeginTriggerFirst(form, now) ==
    IF ~ParseInt(form.width).ok \/ ~ParseInt(form.height).ok
    THEN [NewRequest("upload") EXCEPT !.response = Unhandled("ValueError")]
    ELSE [NewRequest("upload") EXCEPT
             !.pc = "trigger",
             !.payload = form.payload,
             !.width = ParseInt(form.width).val,
             !.height = ParseInt(form.height).val,
             !.source_key = SourceKey(Strftime(now), Extension(form.filename))]

\* Lines 120-126: read the form, parse the dimensions, derive the key.  Every
\* form of UploadForms carries the three fields the handler reads.
UploadBegin(form, now) ==
    IF ~ParseInt(form.width).ok \/ ~ParseInt(form.height).ok
    THEN [NewRequest("upload") EXCEPT !.response = Unhandled("ValueError")]
    ELSE [NewRequest("upload") EXCEPT
             !.pc = "put",
             !.payload = form.payload,
             !.width = ParseInt(form.width).val,
             !.height = ParseInt(form.height).val,
             !.source_key = SourceKey(Strftime(now), Extension(form.filename))]

UploadArrive(form) ==
    /\ Len(reqs) < MaxReq
    /\ clock <= MaxArrival
    /\ reqs' = Append(reqs, [LoginRequired("upload", UploadBegin(form, Now))
                                EXCEPT !.authenticated = LoggedIn])
    /\ UNCHANGED <<clock, objects, users, session, pending>>

\* A handler that logs the exception and carries on to the trigger call.
PutFailedSwallowed(r, error) ==
    [r EXCEPT !.pc = "trigger", !.puts = r.puts + 1, !.put_failed = TRUE]

\* Lines 133-134: upload_fileobj raised.
PutFailed(r, error) ==
    [r EXCEPT !.pc = "done",
              !.puts = r.puts + 1,
              !.put_failed = TRUE,
              !.response = Jsonify([message |-> "File upload failed.",
                                    error |-> error], 500)]

\* Lines 130-132: upload_fileobj returned; the handler goes to sleep.
PutSucceeded(r, now) ==
    [r EXCEPT !.pc = "sleep", !.puts = r.puts + 1, !.wake = now + SLEEP_SECONDS]

UploadPut(i) ==
    /\ reqs[i].route = "upload" /\ reqs[i].pc = "put"
    /\ \/ /\ objects' = PutObject(objects, SOURCE_BUCKET, reqs[i].source_key,
                                  reqs[i].payload)
          /\ reqs' = [reqs EXCEPT ![i] = PutSucceeded(reqs[i], Now)]
       \/ /\ \E error \in PutErrors :
                 reqs' = [reqs EXCEPT ![i] = PutFailed(reqs[i], error)]
          /\ UNCHANGED objects
    /\ UNCHANGED <<clock, users, session, pending>>

\* Line 132: time.sleep(5) returns.
UploadSleep(i) ==
    /\ reqs[i].route = "upload" /\ reqs[i].pc = "sleep"
    /\ Now >= reqs[i].wake
    /\ reqs' = [reqs EXCEPT ![i].pc = "trigger"]
    /\ UNCHANGED <<clock, objects, users, session, pending>>

\* Lines 137-143: the JSON body posted to the trigger endpoint.
TriggerBody(r) ==
    [source_key |-> r.source_key,
     width |-> r.width,
     height |-> r.height,
     source_bucket |-> SOURCE_BUCKET,
     target_bucket |-> TARGET_BUCKET]

\* A status test that lets every status below 400 through.
TriggerResponseAny2xx(status, source_key) ==
    IF status >= 400
    THEN Jsonify([message |-> "Image resizing failed."], 500)
    ELSE Jsonify([original_url |-> ObjectUrl(SOURCE_BUCKET, source_key),
                  resized_url |-> ObjectUrl(TARGET_BUCKET, ResizedKey(source_key)),
                  resized_key |-> ResizedKey(source_key)], 200)

\* Lines 145-157: the response, given the status the endpoint answered.
TriggerResponse(status, source_key) ==
    IF status # HTTP_OK
    THEN Jsonify([message |-> "Image resizing failed."], 500)
    ELSE Jsonify([original_url |-> ObjectUrl(SOURCE_BUCKET, source_key),
                  resized_url |-> ObjectUrl(TARGET_BUCKET, ResizedKey(source_key)),
                  resized_key |-> ResizedKey(source_key)], 200)

\* The endpoint answered with a status.
TriggerAnswered(r, status) ==
    [r EXCEPT !.pc = "done",
              !.posts = r.posts + 1,
              !.post_reply = "status",
              !.post_status = status,
              !.response = TriggerResponse(status, r.source_key)]

\* requests.post raised: nothing in upload_image catches it.
TriggerUnreachable(r) ==
    [r EXCEPT !.pc = "done",
              !.posts = r.posts + 1,
              !.post_reply = "ConnectionError",
              !.response = Unhandled("ConnectionError")]

UploadTrigger(i) ==
    /\ reqs[i].route = "upload" /\ reqs[i].pc = "trigger"
    /\ \/ \E status \in TriggerStatuses :
              /\ reqs' = [reqs EXCEPT ![i] = TriggerAnswered(reqs[i], status)]
              /\ pending' = IF status = 200
                            THEN pending \union {TriggerBody(reqs[i])}
                            ELSE pending
       \/ /\ reqs' = [reqs EXCEPT ![i] = TriggerUnreachable(reqs[i])]
          /\ UNCHANGED pending
    /\ UNCHANGED <<clock, objects, users, session>>

(***************************************************************************)
(* The remote transform: it serves an accepted trigger request by writing  *)
(* the resized object under the resized key in the target bucket.          *)
(***************************************************************************)
Transform ==
    \E t \in pending, size \in ResizedSizes :
        /\ t.width > 0 /\ t.height > 0
        /\ <<t.source_bucket, t.source_key>> \in DOMAIN objects
        /\ objects' = PutObject(objects, t.target_bucket,
                                ResizedKey(t.source_key), size)
        /\ pending' = pending \ {t}
        /\ UNCHANGED <<clock, users, session, reqs>>

(***************************************************************************)
(* POST /check-resized: check_resized_image (lines 159-177).               *)
(***************************************************************************)
\* Has upload request j been answered with a job handle?
HasHandle(j) ==
    /\ reqs[j].route = "upload" /\ reqs[j].pc = "done"
    /\ "resized_key" \in DOMAIN reqs[j].response.body

\* Lines 162-163: read resized_key, derive source_key.
CheckBegin(resized_key) ==
    [NewRequest("check") EXCEPT
        !.pc = "head_target",
        !.resized_key = resized_key,
        !.source_key = DeriveSourceKey(resized_key)]

\* Has check request c of job j been answered with exists True?
AnsweredComplete(c, j) ==
    /\ reqs[c].route = "check" /\ reqs[c].job = j /\ reqs[c].pc = "done"
    /\ "exists" \in DOMAIN reqs[c].response.body
    /\ reqs[c].response.body.exists

\* The request /check-resized starts with for the handle of upload j.
NewCheck(j) ==
    LET resized_key == reqs[j].response.body.resized_key
        r == LoginRequired("check", CheckBegin(resized_key))
    IN [r EXCEPT !.authenticated = LoggedIn,
                 !.job = j,
                 !.after_complete = \E c \in DOMAIN reqs : AnsweredComplete(c, j),
                 !.started_complete =
                     <<TARGET_BUCKET, resized_key>> \in DOMAIN objects]

\* The client polls with the resized_key of the handle upload j returned.
CheckArrive(j) ==
    /\ Len(reqs) < MaxReq
    /\ HasHandle(j)
    /\ reqs' = Append(reqs, NewCheck(j))
    /\ UNCHANGED <<clock, objects, users, session, pending>>

\* A handler without the except clause: every exception is left uncaught.
HeadFailedUncaught(r, outcome) ==
    [r EXCEPT !.pc = "done",
              !.heads = Append(r.heads, outcome),
              !.response = Unhandled(outcome.kind)]

\* Lines 176-177: a head_object call raised.  ClientError is caught and
\* answered with exists False; any other exception is not caught.
HeadFailed(r, outcome) ==
    [r EXCEPT !.pc = "done",
              !.heads = Append(r.heads, outcome),
              !.response = IF outcome.kind = "ClientError"
                           THEN Jsonify([exists |-> FALSE], 200)
                           ELSE Unhandled(outcome.kind)]

\* Line 167: the resized object exists; its metadata is dropped.
HeadTargetFound(r, outcome) ==
    [r EXCEPT !.pc = "head_source", !.heads = Append(r.heads, outcome)]

\* Lines 170, 172: the original's metadata.
HeadSourceFound(r, outcome) ==
    [r EXCEPT !.pc = "head_resized",
              !.heads = Append(r.heads, outcome),
              !.original_size = outcome.ContentLength]

\* Lines 171, 173, 175: the resized object's metadata, and the answer.
HeadResizedFound(r, outcome) ==
    [r EXCEPT !.pc = "done",
              !.heads = Append(r.heads, outcome),
              !.resized_size = outcome.ContentLength,
              !.response = Jsonify([exists |-> TRUE,
                                    original_size |-> r.original_size,
                                    resized_size |-> outcome.ContentLength], 200)]

CheckHeadTarget(i) ==
    /\ reqs[i].route = "check" /\ reqs[i].pc = "head_target"
    /\ \E outcome \in HeadObject(TARGET_BUCKET, reqs[i].resized_key) :
           reqs' = [reqs EXCEPT ![i] =
                       IF outcome.kind = "ok"
                       THEN HeadTargetFound(reqs[i], outcome)
                       ELSE HeadFailed(reqs[i], outcome)]
    /\ UNCHANGED <<clock, objects, users, session, pending>>

CheckHeadSource(i) ==
    /\ reqs[i].route = "check" /\ reqs[i].pc = "head_source"
    /\ \E outcome \in HeadObject(SOURCE_BUCKET, reqs[i].source_key) :
           reqs' = [reqs EXCEPT ![i] =
                       IF outcome.kind = "ok"
                       THEN HeadSourceFound(reqs[i], outcome)
                       ELSE HeadFailed(reqs[i], outcome)]
    /\ UNCHANGED <<clock, objects, users, session, pending>>

\* A handler that deletes the original once the resized object is measured.
CheckHeadResizedCleanup(i) ==
    /\ reqs[i].route = "check" /\ reqs[i].pc = "head_resized"
    /\ \E outcome \in HeadObject(TARGET_BUCKET, reqs[i].resized_key) :
           reqs' = [reqs EXCEPT ![i] =
                       IF outcome.kind = "ok"
                       THEN HeadResizedFound(reqs[i], outcome)
                       ELSE HeadFailed(reqs[i], outcome)]
    /\ objects' = [k \in DOMAIN objects \ {<<SOURCE_BUCKET, reqs[i].source_key>>} |->
                       objects[k]]
    /\ UNCHANGED <<clock, users, session, pending>>

CheckHeadResized(i) ==
    /\ reqs[i].route = "check" /\ reqs[i].pc = "head_resized"
    /\ \E outcome \in HeadObject(TARGET_BUCKET, reqs[i].resized_key) :
           reqs' = [reqs EXCEPT ![i] =
                       IF outcome.kind = "ok"
                       THEN HeadResizedFound(reqs[i], outcome)
                       ELSE HeadFailed(reqs[i], outcome)]
    /\ UNCHANGED <<clock, objects, users, session, pending>>

(***************************************************************************)
(* The system.                                                             *)
(***************************************************************************)
\* db.create_all() on an empty database, empty buckets, a client without a
\* session cookie.
Init ==
    /\ clock = 0
    /\ objects = EmptyDict
    /\ users = <<>>
    /\ session = EmptyDict
    /\ reqs = <<>>
    /\ pending = {}

Next ==
    \/ Tick
    \/ \E u \in Usernames, e \in Emails, p \in RegisteredPasswords, s \in Salts :
           Register(u, e, p, s)
    \/ \E u \in Usernames, e \in Emails : RegisterDuplicate(u, e)
    \/ \E u \in Usernames, p \in Passwords : Login(u, p)
    \/ Logout
    \/ \E form \in UploadForms : UploadArrive(form)
    \/ \E i \in DOMAIN reqs : UploadPut(i)
    \/ \E i \in DOMAIN reqs : UploadSleep(i)
    \/ \E i \in DOMAIN reqs : UploadTrigger(i)
    \/ Transform
    \/ \E j \in DOMAIN reqs : CheckArrive(j)
    \/ \E i \in DOMAIN reqs : CheckHeadTarget(i)
    \/ \E i \in DOMAIN reqs : CheckHeadSource(i)
    \/ \E i \in DOMAIN reqs : CheckHeadResized(i)

Spec == Init /\ [][Next]_vars

(***************************************************************************)
(* One job polled to completion: a logged-in client uploads one image and  *)
(* then calls /check-resized again and again, each call after the answer   *)
(* to the one before, for as long as the answer is not exists True.  The   *)
(* store answers every head call (found or 404).                           *)
(***************************************************************************)
\* The state Register and a successful Login lead to.
LiveInit ==
    /\ clock = 0
    /\ objects = EmptyDict
    /\ users = <<[id |-> 1,
                  username |-> "alice",
                  email |-> "alice@example.com",
                  password |-> GeneratePasswordHash("secret", "salt1")]>>
    /\ session = [user_id |-> 1, username |-> "alice"]
    /\ reqs = <<>>
    /\ pending = {}

\* The client calls /check-resized again in place of the answered call c.
Repoll(c) ==
    /\ reqs[c].route = "check" /\ reqs[c].pc = "done"
    /\ ~AnsweredComplete(c, reqs[c].job)
    /\ reqs' = [reqs EXCEPT ![c] = NewCheck(reqs[c].job)]
    /\ UNCHANGED <<clock, objects, users, session, pending>>

\* The head call request i has just made was answered by the store.
StoreAnswered(i) ==
    reqs[i].heads # <<>> /\ reqs[i].heads[Len(reqs[i].heads)].code \in {200, 404}

UploadSteps ==
    \/ \E form \in UploadForms : reqs = <<>> /\ UploadArrive(form)
    \/ \E i \in DOMAIN reqs : UploadPut(i) \/ UploadSleep(i) \/ UploadTrigger(i)

PollSteps ==
    \/ Len(reqs) = 1 /\ CheckArrive(1)
    \/ \E i \in DOMAIN reqs :
           /\ CheckHeadTarget(i) \/ CheckHeadSource(i) \/ CheckHeadResized(i)
           /\ StoreAnswered(i)'
    \/ \E c \in DOMAIN reqs : Repoll(c)

LiveNext ==
    \/ Tick
    \/ UploadSteps
    \/ Transform
    \/ PollSteps

\* Time passes, every handler thread runs on, the transform serves what it
\* accepted, and the client keeps polling.
Fairness ==
    /\ WF_vars(Tick)
    /\ WF_vars(UploadSteps)
    /\ WF_vars(Transform)
    /\ WF_vars(PollSteps)

LiveSpec == LiveInit /\ [][LiveNext]_vars /\ Fairness

(***************************************************************************)
(* Properties.                                                             *)
(***************************************************************************)
\* The upload requests that passed login_required and the parsing of the
\* dimensions, and so were given a source_key.
Submits == {i \in DOMAIN reqs : reqs[i].route = "upload" /\ reqs[i].source_key # <<>>}

\* The check requests that passed login_required.
Checks == {i \in DOMAIN reqs : reqs[i].route = "check" /\ reqs[i].resized_key # <<>>}

Answered(i) == reqs[i].pc = "done"

Body(i) == reqs[i].response.body

IsHandle(i) == Answered(i) /\ "resized_key" \in DOMAIN Body(i)

\* C1: any two distinct submits, two concurrent uploads in the same second
\* with the same extension included, are given distinct source keys.
C1_DistinctSourceKeys ==
    \A i, j \in Submits : i # j => reqs[i].source_key # reqs[j].source_key

\* C2: a submit whose width or height is not greater than 0 is rejected, and
\* neither the put nor the trigger call is made for it.
C2_InvalidDimensionsRejected ==
    \A i \in Submits :
        (reqs[i].width <= 0 \/ reqs[i].height <= 0) =>
            /\ reqs[i].puts = 0
            /\ reqs[i].posts = 0
            /\ Answered(i) => ~IsHandle(i)

\* C3: a check that arrives after its job's target object was created answers
\* exists true, with original_size the length of the payload the job's submit
\* staged and resized_size the length of the object at the target key.
C3_CompleteCheckReportsSizes ==
    \A c \in Checks :
        (reqs[c].started_complete /\ Answered(c)) =>
            /\ "exists" \in DOMAIN Body(c)
            /\ Body(c).exists
            /\ Body(c).original_size = reqs[reqs[c].job].payload
            /\ Body(c).resized_size = objects[<<TARGET_BUCKET, reqs[c].resized_key>>]

\* C4: the source key check derives from the target key of a source key that
\* submit generated is that source key.
C4_KeyRoundTrip ==
    \A i \in Submits :
        DeriveSourceKey(ResizedKey(reqs[i].source_key)) = reqs[i].source_key

\* The last head_object call of check c was denied or did not reach the store.
HeadCallFailed(c) ==
    /\ reqs[c].heads # <<>>
    /\ LET last == reqs[c].heads[Len(reqs[c].heads)]
       IN last.kind = "EndpointConnectionError"
          \/ (last.kind = "ClientError" /\ last.code = 403)

\* C5: check returns a transport or permission failure of a head call as a
\* store error of its own, never as exists false (and never as a fault).
C5_HeadFailureIsStoreError ==
    \A c \in Checks :
        (Answered(c) /\ HeadCallFailed(c)) =>
            /\ reqs[c].response.type = "json"
            /\ "exists" \notin DOMAIN Body(c)

\* The head on the target key of check c ran while the object was absent.
HeadWhilePending(c) == reqs[c].heads # <<>> /\ ~reqs[c].heads[1].present

TriggerRejected(i) ==
    reqs[i].post_reply = "status" /\ reqs[i].post_status # 200

\* C7: when the trigger endpoint answers with a non-200 status, submit returns
\* the trigger error instead of a job handle, and the source object it staged
\* is still in the source bucket.
C7_RejectedTriggerLeavesOrphan ==
    \A i \in Submits :
        TriggerRejected(i) =>
            /\ Answered(i)
            /\ reqs[i].response = Jsonify([message |-> "Image resizing failed."], 500)
            /\ ~IsHandle(i)
            /\ <<SOURCE_BUCKET, reqs[i].source_key>> \in DOMAIN objects

C7_Witness ==
    \E i \in Submits :
        /\ TriggerRejected(i)
        /\ reqs[i].post_status = 202
        /\ Answered(i)
        /\ reqs[i].puts = 1
        /\ reqs[i].response.status = 500
        /\ <<SOURCE_BUCKET, reqs[i].source_key>> \in DOMAIN objects

C9_FailedPutAborts ==
    \A i \in Submits :
        reqs[i].put_failed =>
            /\ Answered(i)
            /\ reqs[i].response.status = 500
            /\ Body(i).message = "File upload failed."
            /\ reqs[i].posts = 0

C9_Witness ==
    \E i \in Submits :
        /\ reqs[i].put_failed
        /\ Answered(i)
        /\ reqs[i].puts = 1
        /\ reqs[i].posts = 0
        /\ Body(i).message = "File upload failed."

\* C10: between receiving the request and returning the handle submit makes
\* only the put and the trigger call: it has no wait or sleep step.
C10_SubmitNeverSleeps ==
    \A i \in Submits : reqs[i].pc # "sleep" /\ reqs[i].wake = 0

\* C11: /upload and /check-resized are gated by authentication: a request
\* that arrives on a session without user_id makes no put, no head and no
\* trigger call, and is answered with a redirect to login.
C11_UnauthenticatedRefused ==
    \A i \in DOMAIN reqs :
        ~reqs[i].authenticated =>
            /\ Answered(i)
            /\ reqs[i].response = Redirect("login")
            /\ reqs[i].puts = 0
            /\ reqs[i].posts = 0
            /\ reqs[i].heads = <<>>

C11_Witness ==
    /\ \E i \in DOMAIN reqs :
           /\ reqs[i].route = "upload" /\ ~reqs[i].authenticated
           /\ reqs[i].response = Redirect("login")
    /\ \E c \in DOMAIN reqs :
           /\ reqs[c].route = "check" /\ ~reqs[c].authenticated
           /\ reqs[c].response = Redirect("login")

\* C12: the target key is a function of the source key, and an injective one:
\* equal source keys give equal target keys, distinct source keys give
\* distinct target keys.
C12_TargetKeyInjective ==
    \A i, j \in Submits :
        /\ (reqs[i].source_key = reqs[j].source_key)
               <=> (ResizedKey(reqs[i].source_key) = ResizedKey(reqs[j].source_key))
        /\ (IsHandle(i) /\ IsHandle(j)) =>
               ((reqs[i].source_key = reqs[j].source_key)
                    <=> (Body(i).resized_key = Body(j).resized_key))

C12_Witness ==
    \E i, j \in Submits :
        /\ IsHandle(i) /\ IsHandle(j)
        /\ reqs[i].source_key # reqs[j].source_key
        /\ Body(i).resized_key # Body(j).resized_key

\* The put of submit i succeeded.
Staged(i) == reqs[i].puts = 1 /\ ~reqs[i].put_failed

\* C13: once a job's source object has been put, the object at its source key
\* keeps the content that submit staged, whatever later submits and checks
\* do, and is never deleted.
C13_SourceObjectNeverChanges ==
    \A i \in Submits :
        Staged(i) =>
            /\ <<SOURCE_BUCKET, reqs[i].source_key>> \in DOMAIN objects
            /\ objects[<<SOURCE_BUCKET, reqs[i].source_key>>] = reqs[i].payload

\* The trigger of job j was accepted and the transform has written its target.
JobComplete(j) ==
    /\ j \in DOMAIN reqs
    /\ HasHandle(j)
    /\ <<TARGET_BUCKET, Body(j).resized_key>> \in DOMAIN objects

\* C14: if a job's trigger was accepted, the transform creates the target
\* object and the caller keeps invoking check for the job, then some check
\* eventually answers exists True.
C14_PollingReachesComplete ==
    JobComplete(1) ~> (\E c \in DOMAIN reqs : AnsweredComplete(c, 1))

\* C15: the status a caller observes for a job only moves from Pending to
\* Complete: a check that arrives after a check of the same job has answered
\* exists True does not answer exists False.
C15_StatusNeverGoesBack ==
    \A c \in Checks :
        (reqs[c].after_complete /\ Answered(c) /\ "exists" \in DOMAIN Body(c)) =>
            Body(c).exists

\* C16: the trigger call of a job is made only after the job's put has
\* succeeded: whenever a trigger request carrying a source key is about to
\* be sent, has been sent or is waiting to be served, the object at that
\* source key exists in the source bucket.
C16_TriggerAfterPut ==
    /\ \A i \in Submits :
           (reqs[i].pc = "trigger" \/ reqs[i].posts > 0) =>
               /\ Staged(i)
               /\ <<SOURCE_BUCKET, reqs[i].source_key>> \in DOMAIN objects
    /\ \A t \in pending : <<t.source_bucket, t.source_key>> \in DOMAIN objects

C16_Witness ==
    \E i \in Submits :
        /\ reqs[i].posts = 1
        /\ TriggerBody(reqs[i]) \in pending
        /\ <<SOURCE_BUCKET, reqs[i].source_key>> \in DOMAIN objects

\* A step of a /check-resized request: its arrival, or one of its head calls.
CheckStep ==
    \/ /\ Len(reqs') = Len(reqs) + 1
       /\ reqs'[Len(reqs')].route = "check"
    \/ \E i \in DOMAIN reqs : reqs[i].route = "check" /\ reqs'[i] # reqs[i]

\* C17: check is read-only: whatever it answers, no step of a check changes
\* the contents of either bucket or issues a trigger call.
C17_CheckReadOnly ==
    [][CheckStep =>
          /\ objects' = objects
          /\ pending' = pending
          /\ \A i \in DOMAIN reqs' :
                 /\ reqs'[i].route = "check" =>
                        reqs'[i].puts = 0 /\ reqs'[i].posts = 0
                 /\ (i \in DOMAIN reqs /\ reqs[i].route = "upload") =>
                        reqs'[i] = reqs[i]]_vars

C17_Witness ==
    \E c \in Checks :
        /\ Answered(c)
        /\ Len(reqs[c].heads) = 3
        /\ "exists" \in DOMAIN Body(c)
        /\ Body(c).exists
        /\ <<SOURCE_BUCKET, reqs[c].source_key>> \in DOMAIN objects
        /\ <<TARGET_BUCKET, reqs[c].resized_key>> \in DOMAIN objects

\* The username is registered and the password is the one it registered.
ValidCredentials(username, password) ==
    /\ UsersNamed(username) # <<>>
    /\ CheckPasswordHash(UsersNamed(username)[1].password, password)

\* C18: the session becomes authenticated only by a login whose username
\* exists and whose password matches; a failed login leaves it
\* unauthenticated; logout leaves it unauthenticated; and every upload or
\* check that arrives on an unauthenticated session is refused.
C18_SessionLifecycle ==
    [][/\ (~LoggedIn /\ LoggedIn') =>
              \E u \in Usernames, p \in Passwords :
                  Login(u, p) /\ ValidCredentials(u, p)
       /\ \A u \in Usernames, p \in Passwords :
              (Login(u, p) /\ ~LoggedIn /\ ~ValidCredentials(u, p)) => ~LoggedIn'
       /\ Logout => ~LoggedIn'
       /\ (~LoggedIn /\ Len(reqs') = Len(reqs) + 1) =>
              /\ reqs'[Len(reqs')].pc = "done"
              /\ reqs'[Len(reqs')].response = Redirect("login")]_vars

C18_Witness ==
    /\ LoggedIn
    /\ \E i, j, k \in DOMAIN reqs :
           /\ i < j /\ j < k
           /\ reqs[i].authenticated
           /\ ~reqs[j].authenticated /\ reqs[j].response = Redirect("login")
           /\ reqs[k].authenticated /\ reqs[k].source_key # <<>>

====
